---- MODULE Spec2Model ----
(***************************************************************************)
(* A model of the classify-and-count quantifiers of                        *)
(* quantification/cc/base.py: BaseCC (fit, predict with the strategies cc, *)
(* ac, pcc, pac, hdy) and FriedmanAC.                                      *)
(*                                                                         *)
(* Numbers are exact rationals with the IEEE specials numpy produces       *)
(* (nan, inf, -inf); rounding is not modelled.  The classifier is an       *)
(* external capability: it is one of a few deterministic learners (stubs)  *)
(* whose fit/predict/predict_proba are computed from the training data.    *)
(* An instance's feature vector is a single value of Labels; the training  *)
(* sample has X[i] = y[i].                                                 *)
(***************************************************************************)
EXTENDS Integers, Sequences, FiniteSets, TLC

\* ---------------------------------------------------------------- bounds
MaxLabel == 2      \* labels are 0..MaxLabel
MaxN == 4          \* largest training sample
MaxX == 2          \* largest sample given to predict
MaxB == 2          \* largest bin count b

Labels == 0..MaxLabel

\* ------------------------------------------------------- float arithmetic
\* A float is [k, n, d]: k = "num" is the rational n/d (d > 0, lowest terms);
\* "nan", "inf", "ninf" are the IEEE specials; "None" is Python's None.
RECURSIVE Gcd(_, _)
Gcd(a, b) == IF b = 0 THEN a ELSE Gcd(b, a % b)

Abs(i) == IF i < 0 THEN -i ELSE i

Num(n, d) ==
    LET s == IF d < 0 THEN -1 ELSE 1
        g == Gcd(Abs(n), Abs(d))
    IN  [k |-> "num", n |-> (s * n) \div g, d |-> (s * d) \div g]

NaN == [k |-> "nan", n |-> 0, d |-> 1]
Inf == [k |-> "inf", n |-> 0, d |-> 1]
NInf == [k |-> "ninf", n |-> 0, d |-> 1]
None == [k |-> "None", n |-> 0, d |-> 1]

Zero == Num(0, 1)
One == Num(1, 1)
\* np.nan_to_num maps +-inf to the largest finite float; any value above
\* every rate of the model stands for it.
FloatMax == Num(10 ^ 6, 1)

IsNum(a) == a.k = "num"
Sign(a) ==
    CASE a.k = "inf" -> 1
      [] a.k = "ninf" -> -1
      [] a.k = "num" -> (IF a.n > 0 THEN 1 ELSE IF a.n < 0 THEN -1 ELSE 0)
      [] OTHER -> 0

FNeg(a) ==
    CASE a.k = "num" -> Num(-a.n, a.d)
      [] a.k = "inf" -> NInf
      [] a.k = "ninf" -> Inf
      [] OTHER -> NaN

FAdd(a, b) ==
    CASE a.k = "nan" \/ b.k = "nan" -> NaN
      [] a.k = "num" /\ b.k = "num" -> Num(a.n * b.d + b.n * a.d, a.d * b.d)
      [] a.k = "num" -> b
      [] b.k = "num" -> a
      [] a.k = b.k -> a
      [] OTHER -> NaN

FSub(a, b) == FAdd(a, FNeg(b))

FMul(a, b) ==
    CASE a.k = "nan" \/ b.k = "nan" -> NaN
      [] a.k = "num" /\ b.k = "num" -> Num(a.n * b.n, a.d * b.d)
      [] Sign(a) * Sign(b) > 0 -> Inf
      [] Sign(a) * Sign(b) < 0 -> NInf
      [] OTHER -> NaN

\* numpy division: x / 0 is +-inf, 0 / 0 is nan (a warning, never an error).
FDiv(a, b) ==
    CASE a.k = "nan" \/ b.k = "nan" -> NaN
      [] a.k = "num" /\ b.k = "num" ->
            IF b.n # 0 THEN Num(a.n * b.d, a.d * b.n)
            ELSE IF a.n > 0 THEN Inf ELSE IF a.n < 0 THEN NInf ELSE NaN
      [] a.k = "num" -> Zero
      [] b.k = "num" ->
            IF Sign(a) * (IF b.n < 0 THEN -1 ELSE 1) > 0 THEN Inf ELSE NInf
      [] OTHER -> NaN

\* a < b and a <= b; every comparison with nan is false.
FLt(a, b) ==
    CASE a.k = "nan" \/ b.k = "nan" -> FALSE
      [] a.k = "num" /\ b.k = "num" -> a.n * b.d < b.n * a.d
      [] a.k = "num" -> b.k = "inf"
      [] b.k = "num" -> a.k = "ninf"
      [] OTHER -> a.k = "ninf" /\ b.k = "inf"

FEq(a, b) == a.k # "nan" /\ b.k # "nan" /\ a = b

FLe(a, b) == FLt(a, b) \/ FEq(a, b)

\* np.nan_to_num: nan -> 0, inf -> largest float, -inf -> smallest float.
nan_to_num(a) ==
    CASE a.k = "nan" -> Zero
      [] a.k = "inf" -> FloatMax
      [] a.k = "ninf" -> FNeg(FloatMax)
      [] OTHER -> a

\* np.clip(a, lo, hi): nan stays nan.
clip(a, lo, hi) ==
    CASE a.k = "nan" -> NaN
      [] FLt(a, lo) -> lo
      [] FLt(hi, a) -> hi
      [] OTHER -> a

RECURSIVE FSum(_)
FSum(s) == IF s = <<>> THEN Zero ELSE FAdd(Head(s), FSum(Tail(s)))

FMean(s) == FDiv(FSum(s), Num(Len(s), 1))

\* ------------------------------------------------------------ sequences
RECURSIVE SetToSortedSeq(_)
SetToSortedSeq(S) ==
    IF S = {} THEN <<>>
    ELSE LET m == CHOOSE v \in S : \A w \in S : v <= w
         IN  <<m>> \o SetToSortedSeq(S \ {m})

Range(s) == {s[i] : i \in DOMAIN s}

Count(s, v) == Cardinality({i \in DOMAIN s : s[i] = v})

\* s[idx[1]], s[idx[2]], ...  (numpy fancy indexing)
Take(s, idx) == [j \in DOMAIN idx |-> s[idx[j]]]

\* positions of s holding v, ascending (numpy boolean mask)
Where(s, v) == SetToSortedSeq({i \in DOMAIN s : s[i] = v})

SeqsUpTo(S, lo, hi) == UNION {[1..n -> S] : n \in lo..hi}

Ascending(s) == \A i \in 1..(Len(s) - 1) : s[i] <= s[i + 1]
Descending(s) == \A i \in 1..(Len(s) - 1) : s[i] >= s[i + 1]

Min(a, b) == IF a <= b THEN a ELSE b

\* ------------------------------------------- the classifier capability
\* estimator_class None selects the default, LogisticRegression(), a
\* probabilistic classifier.
ClfKinds == {"memorizer", "inverted", "soft", "prior"}
NoneClf == [kind |-> "None", proba |-> FALSE]
\* The configurations explored: every learner with predict_proba, and one
\* hard (crisp) classifier, which has predict alone.
ClfConfigs == [kind : ClfKinds, proba : {TRUE}] \cup {[kind |-> "memorizer", proba |-> FALSE]}
DefaultClf == [kind |-> "soft", proba |-> TRUE]

\* clf.fit(X, y): what the learner keeps of its training sample.
clf_fit(cfg, X, y) ==
    [kind |-> cfg.kind, proba |-> cfg.proba,
     pos |-> {X[i] : i \in {j \in DOMAIN X : y[j] = 1}},
     ones |-> Count(y, 1), total |-> Len(y), y_bin |-> y]

\* clf.predict(X)[i] for the instance x
clf_predict(est, x) ==
    CASE est.kind = "inverted" -> IF x \in est.pos THEN 0 ELSE 1
      [] est.kind = "prior" -> IF 2 * est.ones > est.total THEN 1 ELSE 0
      [] OTHER -> IF x \in est.pos THEN 1 ELSE 0

\* clf.predict_proba(X)[i, 1] for the instance x
clf_predict_proba(est, x) ==
    CASE est.kind = "memorizer" -> IF x \in est.pos THEN One ELSE Zero
      [] est.kind = "inverted" -> IF x \in est.pos THEN Zero ELSE One
      [] est.kind = "soft" -> IF x \in est.pos THEN Num(3, 4) ELSE Num(1, 4)
      [] OTHER -> Num(est.ones, est.total)

predict_all(est, X) == [i \in DOMAIN X |-> clf_predict(est, X[i])]
predict_proba_all(est, X) == [i \in DOMAIN X |-> clf_predict_proba(est, X[i])]

\* ------------------------------------------------ metrics/model_score.py
\* tn, fp, fn, tp = confusion_matrix(y, clf.predict(X)).ravel()
Confusion(est, X, y, truth, pred) ==
    Cardinality({i \in DOMAIN y : y[i] = truth /\ clf_predict(est, X[i]) = pred})

tpr(est, X, y) ==
    LET tp == Confusion(est, X, y, 1, 1)
        fn == Confusion(est, X, y, 1, 0)
    IN  FDiv(Num(tp, 1), Num(tp + fn, 1))

fpr(est, X, y) ==
    LET fp == Confusion(est, X, y, 0, 1)
        tn == Confusion(est, X, y, 0, 0)
    IN  FDiv(Num(fp, 1), Num(fp + tn, 1))

\* ------------------------------------------------------ cross-validation
\* Stratified k-fold: the instances of each class are cut into k consecutive
\* chunks, the first (m % k) chunks one longer; fold f tests chunk f of
\* every class and trains on the rest.
Chunk(idx, k, f) ==
    LET m == Len(idx)
        base == m \div k
        rem == m % k
        start == (f - 1) * base + Min(f - 1, rem)
        size == base + (IF f <= rem THEN 1 ELSE 0)
    IN  {idx[j] : j \in (start + 1)..(start + size)}

TestFold(y, k, f) == UNION {Chunk(Where(y, v), k, f) : v \in Range(y)}

\* cross_val_score(estimator, X, y, cv=folds, scoring=scoring): a clone of the
\* estimator is refitted on each training part and scored on the test part.
Score(scoring, est, X, y) == IF scoring = "tpr" THEN tpr(est, X, y) ELSE fpr(est, X, y)

cross_val_score(est, X, y, folds, scoring) ==
    [f \in 1..folds |->
        LET test == SetToSortedSeq(TestFold(y, folds, f))
            train == SetToSortedSeq(DOMAIN y \ TestFold(y, folds, f))
            clone == clf_fit(est, Take(X, train), Take(y, train))
        IN  Score(scoring, clone, Take(X, test), Take(y, test))]

\* ---------------------------------------------------- BaseCC.fit helpers
unique(y) == SetToSortedSeq(Range(y))

MinClassCount(y) ==
    LET counts == {Count(y, c) : c \in Range(y)}
    IN  CHOOSE m \in counts : \A n \in counts : m <= n

\* (a variant that keeps the requested fold count)
FoldCount_requested(cv, y) == cv

\* cv = np.min([cv, np.min(np.unique(y, return_counts=True)[1])])
FoldCount(cv, y) == Min(cv, MinClassCount(y))

\* (a variant that keeps the first label of a binary problem)
WorkingClasses_first(classes) == IF Len(classes) = 2 THEN <<Head(classes)>> ELSE classes

\* classes = self.classes_[1:] if n_classes == 2 else self.classes_
WorkingClasses(classes) == IF Len(classes) = 2 THEN Tail(classes) ELSE classes

\* y_bin = 1 where y == pos_class, 0 elsewhere
Binarize(y, pos_class) == [i \in DOMAIN y |-> IF y[i] = pos_class THEN 1 ELSE 0]

\* estimator = estimator_class if given, else the default
_make_estimator(estimator_class) ==
    IF estimator_class # NoneClf THEN estimator_class ELSE DefaultClf

\* The four calibration entries of one class.
_compute_performance(est, X, y, folds) ==
    LET rates ==
            IF folds = 1
            THEN [tpr |-> tpr(est, X, y), fpr |-> fpr(est, X, y)]
            ELSE [tpr |-> FMean(cross_val_score(est, X, y, folds, "tpr")),
                  fpr |-> FMean(cross_val_score(est, X, y, folds, "fpr"))]
        predictions == predict_proba_all(est, X)
    IN  IF ~est.proba
        THEN [tpr |-> rates.tpr, fpr |-> rates.fpr, tp_pa |-> None, fp_pa |-> None]
        ELSE [tpr |-> rates.tpr, fpr |-> rates.fpr,
              tp_pa |-> FDiv(FSum(Take(predictions, Where(y, 1))), Num(Count(y, 1), 1)),
              fp_pa |-> FDiv(FSum(Take(predictions, Where(y, 0))), Num(Count(y, 0), 1))]

\* ------------------------------------------------------------ histograms
\* np.histogram(values, bins=b, range=(0, 1))[0]: b equal-width bins over
\* [0, 1], the last one closed on the right.
BinOf(v, nbins) == Min((v.n * nbins) \div v.d, nbins - 1) + 1

histogram(values, nbins) ==
    [j \in 1..nbins |->
        Cardinality({i \in DOMAIN values : BinOf(values[i], nbins) = j})]

\* pdf / float(count), elementwise
Scale(pdf, count) == [j \in DOMAIN pdf |-> FDiv(Num(pdf[j], 1), Num(count, 1))]

\* cross_val_predict(clf, X, y, method="predict_proba")[:, 1]: one
\* out-of-fold positive-class score per instance.  The fold structure of the
\* library's default splitter is not modelled: each score is the one of a
\* clone fitted on the sample.
cross_val_predict(est, X, y) == predict_proba_all(clf_fit(est, X, y), X)

\* np.zeros((n_classes, b, n_clfs))
zeros3(n_classes, nbins, n_clfs) ==
    [i \in 1..n_classes |-> [j \in 1..nbins |-> [k \in 1..n_clfs |-> Zero]]]

\* The keys of a dict in insertion order; fit inserts them ascending.
Keys(dict) == SetToSortedSeq(DOMAIN dict)

\* BaseCC._compute_distribution with b set.  status is "ok" or the exception
\* that ends fit; train_dist is the value self.train_dist_ is left with.
_compute_distribution(nbins, classes, estimators, X, y) ==
    LET n_classes == Len(classes)
        n_clfs == n_classes
        keys == Keys(estimators)
    IN  IF n_classes = 2
        THEN IF 1 \notin DOMAIN estimators
             THEN [status |-> "KeyError", train_dist |-> zeros3(n_classes, nbins, n_clfs)]
             ELSE IF ~estimators[1].proba
             THEN [status |-> "AttributeError",
                   train_dist |-> zeros3(n_classes, nbins, n_clfs)]
             ELSE LET preds == cross_val_predict(estimators[1], X, y)
                      pos_pdf == histogram(Take(preds, Where(y, 1)), nbins)
                      neg_pdf == histogram(Take(preds, Where(y, 0)), nbins)
                  IN  [status |-> "ok",
                       train_dist |-> <<Scale(neg_pdf, Count(y, 0)),
                                        Scale(pos_pdf, Count(y, 1))>>]
        ELSE IF \E c \in DOMAIN estimators : ~estimators[c].proba
             THEN [status |-> "AttributeError",
                   train_dist |-> zeros3(n_classes, nbins, n_clfs)]
             ELSE LET slice(n_cls, n_clf) ==
                          LET y_bin == Binarize(y, keys[n_clf])
                              preds == cross_val_predict(estimators[keys[n_clf]], X, y_bin)
                              pdf == histogram(Take(preds, Where(y, classes[n_cls])), nbins)
                          IN  Scale(pdf, Count(y_bin, 1))
                  \* reshape(n_classes, -1): entry (bin, clf) of a row lands at
                  \* position bin * n_clfs + clf (0-based)
                  IN  [status |-> "ok",
                       train_dist |->
                          [n_cls \in 1..n_classes |->
                              [p \in 1..(nbins * n_clfs) |->
                                  slice(n_cls, ((p - 1) % n_clfs) + 1)[((p - 1) \div n_clfs) + 1]]]]

\* ------------------------------------------------------------- the state
VARIABLES
    class,            \* "BaseCC" or "FriedmanAC"
    b,                \* bin count; 0 stands for None
    estimator_class,  \* the configured classifier, NoneClf if not given
    estimator_params, \* parameters set on the classifier: pairs <<name, value>>
    estimator_grid,   \* the parameter grid: pairs <<name, values>>; {} if not given
    grid_params,      \* keyword arguments of the grid search
    classes_,         \* self.classes_; <<>> while the attribute does not exist
    estimators_,      \* dict class -> fitted classifier
    tpr_, fpr_,       \* dict class -> rate
    tp_pa_, fp_pa_,   \* dict class -> mean positive probability, or None
    train_dist_,      \* the training distribution table; <<>> while unset
    train_prevs,      \* FriedmanAC: training prevalences
    V,                \* FriedmanAC: correction matrix
    conditional_prob_, \* MulticlassAdjustedCount: conditional probability matrices
    last,             \* the call that has just ended and what its caller receives
    th,               \* per thread: the predict call it is inside and its locals
    qp,               \* a vector put to the constraints FriedmanAC.predict builds
    run               \* the cv_confusion_matrix call under way on the cluster

fitted == <<classes_, estimators_, tpr_, fpr_, tp_pa_, fp_pa_, train_dist_, train_prevs, V,
            conditional_prob_>>
config == <<class, b, estimator_class, estimator_params, estimator_grid, grid_params>>
vars == <<class, b, estimator_class, estimator_params, estimator_grid, grid_params,
          classes_, estimators_, tpr_, fpr_, tp_pa_, fp_pa_,
          train_dist_, train_prevs, V, conditional_prob_, last, th, qp, run>>

Unset == <<>>
NoCall == [op |-> "none", method |-> "", X |-> <<>>, y |-> <<>>, cv |-> 0, status |-> "ok",
           value |-> <<>>, via |-> <<>>]

\* What a call hands back: the value, the exception, or the solver call whose
\* answer is returned as it is.
Raise(exc) == [status |-> exc, value |-> <<>>, via |-> <<>>]
Return(value) == [status |-> "ok", value |-> value, via |-> <<>>]

Threads == {"t1", "t2"}
Idle == [pc |-> "idle", method |-> "", X |-> <<>>, acc |-> <<>>, res |-> Raise("none")]
NoQuery == [phase |-> "none", x |-> <<>>, admitted |-> FALSE]
\* No cv_confusion_matrix call is under way.
NoRun == [pc |-> "idle", folds |-> 0, jobs |-> <<>>, cms |-> <<>>, exc |-> "none",
          res |-> Raise("none")]

\* __init__ without estimator_params, estimator_grid, grid_params: each is dict().
NoGrid == estimator_params = {} /\ estimator_grid = {} /\ grid_params = {}

\* Training samples: at least two distinct labels, listed in ascending or in
\* descending order.
TrainY == {y \in SeqsUpTo(Labels, 2, MaxN) :
              Cardinality(Range(y)) >= 2 /\ (Ascending(y) \/ Descending(y))}
\* The default cv of fit is 50.
DefaultCv == 50
CvArgs == {1, DefaultCv}
\* Samples given to predict, instances in ascending order.
TestX == {X \in SeqsUpTo(Labels, 1, MaxX) : Ascending(X)}
Methods == {"cc", "ac", "pcc", "pac", "hdy"}

\* __init__: only the configuration exists.
InitObject(classes) ==
    /\ class \in classes
    /\ b \in 0..MaxB
    /\ estimator_class \in ClfConfigs \cup {NoneClf}
    /\ NoGrid
    /\ classes_ = Unset /\ estimators_ = Unset
    /\ tpr_ = Unset /\ fpr_ = Unset /\ tp_pa_ = Unset /\ fp_pa_ = Unset
    /\ train_dist_ = Unset /\ train_prevs = Unset /\ V = Unset
    /\ conditional_prob_ = Unset
    /\ last = NoCall
    /\ th = [t \in Threads |-> Idle]
    /\ qp = NoQuery
    /\ run = NoRun

Init == InitObject({"BaseCC"})

\* ------------------------------------- FriedmanAC._compute_distribution
\* np.unique(y, return_counts=True)[1] / len(X)
TrainPrevs(classes, y) == [j \in DOMAIN classes |-> Num(Count(y, classes[j]), Len(y))]

\* One row of Up / Vp: the scores of an instance, divided by their sum, then
\* compared with the training prevalences (1 where the share is greater).
Indicator(scores, prevs) ==
    LET total == FSum(scores)
    IN  [j \in DOMAIN scores |-> IF FLt(prevs[j], FDiv(scores[j], total)) THEN 1 ELSE 0]

\* The positive-class scores each estimator gives the instances of X: one
\* column from estimators_[1] in the binary case, one per estimator otherwise.
ScoreCols(classes, estimators, X) ==
    IF Len(classes) = 2
    THEN <<predict_proba_all(estimators[1], X)>>
    ELSE [j \in 1..Len(Keys(estimators)) |->
            predict_proba_all(estimators[Keys(estimators)[j]], X)]

\* The score row of instance i: predict_proba of estimators_[1] (both
\* columns) in the binary case, column n_clf from the n_clf-th estimator
\* otherwise.
ScoreRow(classes, cols, i) ==
    IF Len(classes) = 2
    THEN <<FSub(One, cols[1][i]), cols[1][i]>>
    ELSE [j \in 1..Len(classes) |-> IF j <= Len(cols) THEN cols[j][i] ELSE Zero]

\* Up (Vp): the indicator rows of the instances
IndicatorRows(classes, cols, prevs, X) ==
    [i \in DOMAIN X |-> Indicator(ScoreRow(classes, cols, i), prevs)]

\* The exception predict_proba of the estimators raises here, or "ok".
ScoreStatus(classes, estimators) ==
    IF Len(classes) = 2
    THEN IF 1 \notin DOMAIN estimators THEN "KeyError"
         ELSE IF ~estimators[1].proba THEN "AttributeError" ELSE "ok"
    ELSE IF \E c \in DOMAIN estimators : ~estimators[c].proba
         THEN "AttributeError" ELSE "ok"

\* rows.mean(axis=0)[r] for rows of 0/1 entries
ColumnMean(rows, r) ==
    FDiv(Num(Cardinality({i \in DOMAIN rows : rows[i][r] = 1}), 1), Num(Len(rows), 1))

\* (a variant that fills row cls: self.V[cls, :] = ...)
FriedmanV_rows(classes, estimators, prevs, X, y) ==
    LET n_classes == Len(classes)
        Vp == IndicatorRows(classes, ScoreCols(classes, estimators, X), prevs, X)
    IN  [r \in 1..n_classes |->
            [c \in 1..n_classes |->
                IF (r - 1) \in Range(classes)
                THEN ColumnMean(Take(Vp, Where(y, r - 1)), c)
                ELSE Zero]]

\* self.V after the loop `for cls in self.classes_: self.V[:, cls] = ...`;
\* a label that is no column index ends the loop with IndexError.
FriedmanV(classes, estimators, prevs, X, y) ==
    LET n_classes == Len(classes)
        Vp == IndicatorRows(classes, ScoreCols(classes, estimators, X), prevs, X)
    IN  [r \in 1..n_classes |->
            [c \in 1..n_classes |->
                IF (c - 1) \in Range(classes)
                THEN ColumnMean(Take(Vp, Where(y, c - 1)), r)
                ELSE Zero]]

Friedman_compute_distribution(classes, estimators, X, y) ==
    LET prevs == TrainPrevs(classes, y)
        st == ScoreStatus(classes, estimators)
    IN  IF st # "ok"
        THEN [status |-> st, train_prevs |-> prevs, V |-> V]
        ELSE [status |-> IF \E c \in Range(classes) : c >= Len(classes)
                         THEN "IndexError" ELSE "ok",
              train_prevs |-> prevs,
              V |-> FriedmanV(classes, estimators, prevs, X, y)]

\* ------------------------------------------------------------ BaseCC.fit
\* The attributes fit leaves on the object and what its caller sees: the
\* whole call, the calibration of every class and the distribution step
\* included.  status is "ok" or the exception raised.
FitResult(y, cv) ==
    LET X == y
        folds == FoldCount(cv, y)
        all == unique(y)
        classes == WorkingClasses(all)
        keys == Range(classes)
    IN  LET trained == [c \in keys |->
                clf_fit(_make_estimator(estimator_class), X, Binarize(y, c))]
        IN  LET perf == [c \in keys |->
                    IF class = "FriedmanAC"
                    THEN [tpr |-> None, fpr |-> None, tp_pa |-> None, fp_pa |-> None]
                    ELSE _compute_performance(trained[c], X, Binarize(y, c), folds)]
                dist == IF class = "FriedmanAC"
                        THEN Friedman_compute_distribution(all, trained, X, y)
                                @@ [train_dist |-> train_dist_]
                        ELSE IF b = 0
                        THEN [status |-> "ok", train_dist |-> train_dist_,
                              train_prevs |-> train_prevs, V |-> V]
                        ELSE _compute_distribution(b, all, trained, X, y)
                                @@ [train_prevs |-> train_prevs, V |-> V]
            IN  [classes |-> all, estimators |-> trained, perf |-> perf, dist |-> dist]

\* An object is fitted once: fit is explored on the new object only.
Fit(y, cv) ==
    /\ last.op = "none"
    /\ classes_ = Unset
    /\ \E r \in {FitResult(y, cv)} :
        /\ classes_' = r.classes
        /\ estimators_' = r.estimators
        /\ tpr_' = [c \in DOMAIN r.perf |-> r.perf[c].tpr]
        /\ fpr_' = [c \in DOMAIN r.perf |-> r.perf[c].fpr]
        /\ tp_pa_' = [c \in DOMAIN r.perf |-> r.perf[c].tp_pa]
        /\ fp_pa_' = [c \in DOMAIN r.perf |-> r.perf[c].fp_pa]
        /\ train_dist_' = r.dist.train_dist
        /\ train_prevs' = r.dist.train_prevs
        /\ V' = r.dist.V
        /\ last' = [op |-> "fit", method |-> "", X |-> y, y |-> y, cv |-> cv,
                    status |-> r.dist.status, value |-> <<>>, via |-> <<>>]
    /\ UNCHANGED <<config, conditional_prob_, th, qp, run>>

FitCall == \E y \in TrainY, cv \in CvArgs : Fit(y, cv)

\* -------------------------------------------------------- BaseCC.predict
\* relative_freq[1]: the share of instances the estimator labels positive
RelativeFreq(est, X) ==
    LET predictions == predict_all(est, X)
        freq == <<Count(predictions, 0), Count(predictions, 1)>>
    IN  FDiv(Num(freq[2], 1), Num(freq[1] + freq[2], 1))

\* np.mean(predictions, axis=0)[1]
MeanProba(est, X) == FMean(predict_proba_all(est, X))

\* One pass of the loop over self.estimators_.items(): the value stored in
\* probabilities[n], or the exception that ends the call.
_predict_cc_iter(cls, X) ==
    [status |-> "ok", p |-> RelativeFreq(estimators_[cls], X)]

_predict_ac_iter(cls, X) ==
    LET adjusted == FDiv(FSub(RelativeFreq(estimators_[cls], X), fpr_[cls]),
                         FSub(tpr_[cls], fpr_[cls]))
    IN  [status |-> "ok", p |-> clip(nan_to_num(adjusted), Zero, One)]

_predict_pcc_iter(cls, X) ==
    IF ~estimators_[cls].proba
    THEN [status |-> "ValueError", p |-> NaN]
    ELSE [status |-> "ok", p |-> MeanProba(estimators_[cls], X)]

_predict_pac_iter(cls, X) ==
    IF ~estimators_[cls].proba
    THEN [status |-> "ValueError", p |-> NaN]
    ELSE [status |-> "ok",
          p |-> clip(FDiv(FSub(MeanProba(estimators_[cls], X), fp_pa_[cls]),
                          FSub(tp_pa_[cls], fp_pa_[cls])), Zero, One)]

StrategyIter(method, cls, X) ==
    CASE method = "cc" -> _predict_cc_iter(cls, X)
      [] method = "ac" -> _predict_ac_iter(cls, X)
      [] method = "pcc" -> _predict_pcc_iter(cls, X)
      [] OTHER -> _predict_pac_iter(cls, X)

\* (a variant that lists the positive class first)
Expand_positive_first(probabilities) ==
    IF Len(probabilities) < 2
    THEN <<probabilities[1], FSub(One, probabilities[1])>>
    ELSE probabilities

\* if len(probabilities) < 2: probabilities = [1 - probabilities[0], probabilities[0]]
Expand(probabilities) ==
    IF Len(probabilities) < 2
    THEN <<FSub(One, probabilities[1]), probabilities[1]>>
    ELSE probabilities

\* if np.sum(probabilities) == 0: return probabilities
\* return probabilities / np.sum(probabilities)
Renormalize(probabilities) ==
    LET total == FSum(probabilities)
    IN  IF FEq(total, Zero) THEN probabilities
        ELSE [j \in DOMAIN probabilities |-> FDiv(probabilities[j], total)]

\* The tail of every _predict_* strategy.
Finish(probabilities) == Renormalize(Expand(probabilities))

\* utils.solve_hd(train_dist, test_dist, n_classes): the mixture minimising
\* the Hellinger distance.  Its value is left uninterpreted.
solve_hd(train_dist, test_dist, n_classes) == <<"solve_hd", train_dist, test_dist, n_classes>>

\* _predict_cc, _predict_ac, _predict_pcc, _predict_pac
_predict_count(method, X) ==
    IF classes_ = Unset THEN Raise("AttributeError")
    ELSE LET keys == Keys(estimators_)
             iters == [n \in DOMAIN keys |-> StrategyIter(method, keys[n], X)]
             failed == {n \in DOMAIN iters : iters[n].status # "ok"}
         IN  IF failed # {}
             THEN Raise(iters[CHOOSE n \in failed : \A m \in failed : n <= m].status)
             ELSE Return(Finish([n \in DOMAIN iters |-> iters[n].p]))

\* pdf / float(X.shape[0]) for one estimator
TestPdf(est, X, nbins) == Scale(histogram(predict_proba_all(est, X), nbins), Len(X))

\* test_dist: the column of one estimator in the binary case; otherwise the
\* (bin, classifier) table reshaped to one column, bin-major.
HdyTestDist(pdfs, nbins) ==
    IF Len(pdfs) = 1 THEN pdfs[1]
    ELSE [p \in 1..(nbins * Len(pdfs)) |->
            pdfs[((p - 1) % Len(pdfs)) + 1][((p - 1) \div Len(pdfs)) + 1]]

\* The estimators _predict_hdy reads, in order: estimators_[1] in the binary
\* case, every estimator otherwise.
HdyKeys == IF Len(classes_) = 2 THEN <<1>> ELSE Keys(estimators_)

\* What reading estimator `key` for its probabilities raises, or "ok".
ProbaStatus(key) ==
    IF key \notin DOMAIN estimators_ THEN "KeyError"
    ELSE IF ~estimators_[key].proba THEN "AttributeError" ELSE "ok"

\* _predict_hdy once b is known to be set
_predict_hdy_body(X) ==
    IF classes_ = Unset THEN Raise("AttributeError")
    ELSE LET keys == HdyKeys
             failed == {n \in DOMAIN keys : ProbaStatus(keys[n]) # "ok"}
         IN  IF failed # {}
             THEN Raise(ProbaStatus(keys[CHOOSE n \in failed : \A m \in failed : n <= m]))
             ELSE [status |-> "ok", value |-> <<>>,
                   via |-> solve_hd(train_dist_,
                             HdyTestDist([n \in DOMAIN keys |->
                                            TestPdf(estimators_[keys[n]], X, b)], b),
                             Len(classes_))]

\* (a variant that omits the check of b)
_predict_hdy_unguarded(X) == _predict_hdy_body(X)

\* if not self.b: raise ValueError(...)
_predict_hdy(X) == IF b = 0 THEN Raise("ValueError") ELSE _predict_hdy_body(X)

\* --------------------------------------------------- FriedmanAC.predict
\* C = np.vstack([-np.ones((1, n)), np.eye(n)]).T: n rows, n + 1 columns
QP_C(n) == [i \in 1..n |-> [k \in 1..(n + 1) |->
                IF k = 1 THEN Num(-1, 1) ELSE IF k - 1 = i THEN One ELSE Zero]]

\* b = np.array([-1] + [0] * n)
QP_b(n) == [k \in 1..(n + 1) |-> IF k = 1 THEN Num(-1, 1) ELSE Zero]

\* quadprog.solve_qp(G, a, C, b) with its default meq=0 admits x when
\* C.T x >= b holds in every component.
QPAdmits(C, bvec, x) ==
    \A k \in DOMAIN bvec :
        FLe(bvec[k], FSum([i \in DOMAIN x |-> FMul(C[i][k], x[i])]))

\* G = self.V.T.dot(self.V)
Gram(M) == [i \in DOMAIN M |-> [j \in DOMAIN M |->
                FSum([r \in DOMAIN M |-> FMul(M[r][i], M[r][j])])]]

\* a = U.dot(self.V)
VecMat(U, M) == [j \in DOMAIN M |-> FSum([r \in DOMAIN M |-> FMul(U[r], M[r][j])])]

\* if not is_pd(G): G = nearest_pd(G).  Left uninterpreted, a function of G.
EnsurePD(G) == <<"pd", G>>

\* sol = quadprog.solve_qp(G=G, a=a, C=C, b=b); p = sol[0].  The minimiser is
\* left uninterpreted, a function of what is passed.
solve_qp(G, a, C, bvec) == <<"solve_qp", G, a, C, bvec>>

\* The tail of FriedmanAC.predict, from the score columns to the solution.
FriedmanSolve(cols, X) ==
    LET n_classes == Len(classes_)
        Up == IndicatorRows(classes_, cols, train_prevs, X)
        U == [r \in 1..n_classes |-> ColumnMean(Up, r)]
    IN  [status |-> "ok", value |-> <<>>,
         via |-> solve_qp(EnsurePD(Gram(V)), VecMat(U, V), QP_C(n_classes), QP_b(n_classes))]

\* FriedmanAC.predict(X, method): the method name is not read.
FriedmanPredict(X) ==
    IF classes_ = Unset THEN Raise("AttributeError")
    ELSE IF ScoreStatus(classes_, estimators_) # "ok"
    THEN Raise(ScoreStatus(classes_, estimators_))
    ELSE FriedmanSolve(ScoreCols(classes_, estimators_, X), X)

\* (a variant whose dispatch falls back to cc)
predict_fallback_cc(X, method) ==
    CASE method \in {"ac", "pcc", "pac"} -> _predict_count(method, X)
      [] method = "hdy" -> _predict_hdy(X)
      [] OTHER -> _predict_count("cc", X)

\* BaseCC.predict(X, method): the dispatch on the method name.
predict(X, method) ==
    CASE method \in {"cc", "ac", "pcc", "pac"} -> _predict_count(method, X)
      [] method = "hdy" -> _predict_hdy(X)
      [] OTHER -> Raise("ValueError")

\* A method name outside the supported ones is an input too.
MethodArgs == Methods \cup {"bla"}

Predict(X, method) ==
    /\ last.op = "none"
    /\ class = "BaseCC"
    /\ \E r \in {predict(X, method)} :
          last' = [op |-> "predict", method |-> method, X |-> X, y |-> <<>>, cv |-> 0,
                   status |-> r.status, value |-> r.value, via |-> r.via]
    /\ UNCHANGED <<config, fitted, th, qp, run>>

PredictCall == \E X \in TestX, method \in MethodArgs : Predict(X, method)

\* The caller takes the result (or the exception); the object is idle again.
Done ==
    /\ last.op # "none"
    /\ last' = NoCall
    /\ UNCHANGED <<config, fitted, th, qp, run>>

Next == FitCall \/ PredictCall \/ Done

Spec == Init /\ [][Next]_vars

\* ------------------------------------------- predict, statement by statement
\* Several threads call predict on one fitted object.  A call is followed
\* through its dispatch, the passes of its loop over the estimators, and its
\* tail; the working arrays (probabilities, test_dist, Up) are locals of the
\* call.
ConcTrainY == {<<0, 1>>, <<0, 1, 2>>}
ConcX == {<<0>>, <<0, 1>>}

FitCompleted == last.op = "fit" /\ last.status = "ok"

\* The estimators the loop of the call visits, in order.
LoopKeys(method) ==
    IF class = "FriedmanAC" \/ method = "hdy" THEN HdyKeys ELSE Keys(estimators_)

\* One pass: what it stores in the working array, or the exception it raises.
LoopItem(method, key, X) ==
    IF class = "FriedmanAC" \/ method = "hdy"
    THEN IF ProbaStatus(key) # "ok" THEN [status |-> ProbaStatus(key), p |-> <<>>]
         ELSE [status |-> "ok",
               p |-> IF class = "FriedmanAC"
                     THEN predict_proba_all(estimators_[key], X)
                     ELSE TestPdf(estimators_[key], X, b)]
    ELSE StrategyIter(method, key, X)

\* The statements after the loop.
LoopTail(method, acc, X) ==
    IF class = "FriedmanAC" THEN FriedmanSolve(acc, X)
    ELSE IF method = "hdy"
    THEN [status |-> "ok", value |-> <<>>,
          via |-> solve_hd(train_dist_, HdyTestDist(acc, b), Len(classes_))]
    ELSE Return(Finish(acc))

\* The call enters predict: the dispatch on the method name, and the check
\* of b in _predict_hdy.  FriedmanAC.predict does not read the name.
Call(t, X, method) ==
    /\ FitCompleted
    /\ th[t].pc = "idle"
    /\ method \in (IF class = "FriedmanAC" THEN {"fac"} ELSE MethodArgs)
    /\ th' = [th EXCEPT ![t] =
                IF class = "BaseCC" /\ (method \notin Methods \/ (method = "hdy" /\ b = 0))
                THEN [pc |-> "done", method |-> method, X |-> X, acc |-> <<>>,
                      res |-> Raise("ValueError")]
                ELSE [pc |-> "loop", method |-> method, X |-> X, acc |-> <<>>,
                      res |-> Raise("none")]]
    /\ UNCHANGED <<config, fitted, last, qp, run>>

\* (a variant of the loop pass that keeps tpr - fpr in self.tpr_)
Iter_caching(t) ==
    /\ th[t].pc = "loop"
    /\ LET keys == LoopKeys(th[t].method)
           n == Len(th[t].acc) + 1
           item == LoopItem(th[t].method, keys[n], th[t].X)
       IN  /\ th' = [th EXCEPT ![t] =
                        IF item.status # "ok"
                        THEN [@ EXCEPT !.pc = "done", !.res = Raise(item.status)]
                        ELSE [@ EXCEPT !.acc = Append(@, item.p),
                                       !.pc = IF n = Len(keys) THEN "tail" ELSE "loop"]]
           /\ tpr_' = IF th[t].method = "ac"
                      THEN [tpr_ EXCEPT ![keys[n]] = FSub(@, fpr_[keys[n]])]
                      ELSE tpr_
    /\ UNCHANGED <<config, classes_, estimators_, fpr_, tp_pa_, fp_pa_, train_dist_,
                   train_prevs, V, conditional_prob_, last, qp, run>>

\* One pass of the loop over the estimators.
Iter(t) ==
    /\ th[t].pc = "loop"
    /\ LET keys == LoopKeys(th[t].method)
           n == Len(th[t].acc) + 1
           item == LoopItem(th[t].method, keys[n], th[t].X)
       IN  th' = [th EXCEPT ![t] =
                    IF item.status # "ok"
                    THEN [@ EXCEPT !.pc = "done", !.res = Raise(item.status)]
                    ELSE [@ EXCEPT !.acc = Append(@, item.p),
                                   !.pc = IF n = Len(keys) THEN "tail" ELSE "loop"]]
    /\ UNCHANGED <<config, fitted, last, qp, run>>

\* The statements after the loop, up to the return.
AfterLoop(t) ==
    /\ th[t].pc = "tail"
    /\ th' = [th EXCEPT ![t] =
                [@ EXCEPT !.pc = "done", !.res = LoopTail(th[t].method, th[t].acc, th[t].X)]]
    /\ UNCHANGED <<config, fitted, last, qp, run>>

\* The caller has the result; the thread may call again.
TakeResult(t) ==
    /\ th[t].pc = "done"
    /\ th' = [th EXCEPT ![t] = Idle]
    /\ UNCHANGED <<config, fitted, last, qp, run>>

ConcFit == \E y \in ConcTrainY : Fit(y, 1)
ConcCall == \E t \in Threads, X \in ConcX, method \in MethodArgs \cup {"fac"} : Call(t, X, method)
ConcIter == \E t \in Threads : Iter(t)
ConcAfterLoop == \E t \in Threads : AfterLoop(t)
ConcTakeResult == \E t \in Threads : TakeResult(t)

InitConc == InitObject({"BaseCC", "FriedmanAC"})
NextConc == ConcFit \/ ConcCall \/ ConcIter \/ ConcAfterLoop \/ ConcTakeResult
SpecConc == InitConc /\ [][NextConc]_vars

\* ------------------------------------------- FriedmanAC, one caller
\* FriedmanAC.predict(X) as one call
Fac(X) ==
    /\ last.op = "none"
    /\ class = "FriedmanAC"
    /\ \E r \in {FriedmanPredict(X)} :
          last' = [op |-> "predict", method |-> "fac", X |-> X, y |-> <<>>, cv |-> 0,
                   status |-> r.status, value |-> r.value, via |-> r.via]
    /\ UNCHANGED <<config, fitted, th, qp, run>>

FacCall == \E X \in TestX : Fac(X)

InitFriedman == InitObject({"FriedmanAC"}) /\ b = 0
NextFriedman == FitCall \/ FacCall \/ Done
SpecFriedman == InitFriedman /\ [][NextFriedman]_vars

\* ------------------------------ the constraints of FriedmanAC.predict alone
\* Vectors on a grid of multiples of 1 / QPDen, reaching below 0 and above 1.
QPDen == 2
QPGrid == {Num(k, QPDen) : k \in (-1)..(QPDen + 1)}
QPVectors == UNION {[1..n -> QPGrid] : n \in 2..(MaxLabel + 1)}

InitQP ==
    /\ class = "FriedmanAC" /\ b = 0 /\ estimator_class = NoneClf /\ NoGrid
    /\ classes_ = Unset /\ estimators_ = Unset
    /\ tpr_ = Unset /\ fpr_ = Unset /\ tp_pa_ = Unset /\ fp_pa_ = Unset
    /\ train_dist_ = Unset /\ train_prevs = Unset /\ V = Unset
    /\ conditional_prob_ = Unset
    /\ last = NoCall
    /\ th = [t \in Threads |-> Idle]
    /\ qp \in [phase : {"posed"}, x : QPVectors, admitted : {FALSE}]
    /\ run = NoRun

\* x is put to the constraints C, b as solve_qp reads them.
QPCheck ==
    /\ qp.phase = "posed"
    /\ qp' = [qp EXCEPT !.phase = "checked",
                        !.admitted = QPAdmits(QP_C(Len(qp.x)), QP_b(Len(qp.x)), qp.x)]
    /\ UNCHANGED <<config, fitted, last, th, run>>

NextQP == QPCheck
SpecQP == InitQP /\ [][NextQP]_vars

\* ------------------------------ classify_and_count: ensemble quantifiers
\* ClassifyAndCount, BinaryAdjustedCount and MulticlassAdjustedCount keep a
\* list of classifiers, one per fitted sample.  They are explored with the
\* default classifier, LogisticRegression().  fit and predict take one
\* sample or a list of samples: an input is [list, X, y].
EnsClasses == {"ClassifyAndCount", "BinaryAdjustedCount", "MulticlassAdjustedCount"}

\* Labelled samples: two classes told apart by the feature, two classes
\* not told apart, one class, three classes, three classes not told apart.
EnsSamples ==
    { [X |-> <<0, 1, 1>>, y |-> <<0, 1, 1>>],
      [X |-> <<0, 0, 1>>, y |-> <<0, 1, 1>>],
      [X |-> <<0, 1, 1>>, y |-> <<1, 1, 1>>],
      [X |-> <<0, 1, 2>>, y |-> <<0, 1, 2>>],
      [X |-> <<0, 1, 1, 2>>, y |-> <<0, 1, 2, 2>>] }

\* The longest estimator list explored.
MaxBank == 2

One_sample(smp) == [list |-> FALSE, X |-> smp.X, y |-> smp.y]
ListOf(smps) == [list |-> TRUE, X |-> [i \in DOMAIN smps |-> smps[i].X],
                 y |-> [i \in DOMAIN smps |-> smps[i].y]]
EnsFitSamples == {One_sample(smp) : smp \in EnsSamples}
EnsFitLists == {ListOf(smps) : smps \in UNION {[1..n -> EnsSamples] : n \in 1..MaxBank}}

\* clf.fit(X, y) of the default classifier: it refuses a sample of one
\* class; otherwise it labels an instance as most training instances with
\* the same feature are labelled (all training instances when the feature
\* is new), the smaller label on a tie.
lr_status(y) == IF Cardinality(Range(y)) < 2 THEN "ValueError" ELSE "ok"
lr_fit(X, y) == [classes_ |-> unique(y), X |-> X, y |-> y]
lr_predict(clf, x) ==
    LET seen == {i \in DOMAIN clf.X : clf.X[i] = x}
        pool == IF seen = {} THEN DOMAIN clf.X ELSE seen
        votes(c) == Cardinality({i \in pool : clf.y[i] = c})
    IN  CHOOSE c \in Range(clf.y) :
            \A d \in Range(clf.y) : votes(c) > votes(d) \/ (votes(c) = votes(d) /\ c <= d)

\* ClusterParallel(func, iterable, kwargs).retrieve(): the results of the
\* tasks in the order of the inputs, or one error when a task failed.
ParallelStatus(statuses) ==
    IF \E i \in DOMAIN statuses : statuses[i] # "ok" THEN "AggregatedTaskError" ELSE "ok"

\* set(label for clf in self.estimators_ for label in clf.classes_)
BankClasses(bank) == UNION {Range(bank[i].classes_) : i \in DOMAIN bank}

\* What a fit leaves on the object, and its outcome.
Kept(status) ==
    [status |-> status, estimators |-> estimators_, classes |-> classes_,
     tpr |-> tpr_, fpr |-> fpr_, cond |-> conditional_prob_]

\* ClassifyAndCount.fit(X, y)
ClassifyAndCount_fit(in) ==
    IF ~in.list
    THEN IF lr_status(in.y) # "ok" THEN Kept(lr_status(in.y))
         ELSE LET bank == Append(estimators_, lr_fit(in.X, in.y))
              IN  [Kept("ok") EXCEPT !.estimators = bank, !.classes = BankClasses(bank)]
    ELSE LET st == ParallelStatus([i \in DOMAIN in.X |-> lr_status(in.y[i])])
         IN  IF st # "ok" THEN Kept(st)
             ELSE LET bank == estimators_ \o [i \in DOMAIN in.X |-> lr_fit(in.X[i], in.y[i])]
                  IN  [Kept("ok") EXCEPT !.estimators = bank, !.classes = BankClasses(bank)]

\* np.argmax(np.bincount(x)) over the labels the estimators give one
\* instance: the most voted label, the smallest on a tie.
Majority(bank, x) ==
    LET votes(c) == Cardinality({e \in DOMAIN bank : lr_predict(bank[e], x) = c})
        labels == {lr_predict(bank[e], x) : e \in DOMAIN bank}
    IN  CHOOSE c \in labels :
            \A d \in labels : votes(c) > votes(d) \/ (votes(c) = votes(d) /\ c <= d)

\* freq = np.bincount(maj, minlength=len(self.classes_));
\* relative_freq = freq / float(np.sum(freq))
relative_freq(bank, classes, X) ==
    LET maj == [i \in DOMAIN X |-> Majority(bank, X[i])]
        top == CHOOSE m \in Range(maj) : \A n \in Range(maj) : n <= m
        len == IF Cardinality(classes) > top + 1 THEN Cardinality(classes) ELSE top + 1
    IN  [j \in 1..len |-> FDiv(Num(Count(maj, j - 1), 1), Num(Len(X), 1))]

\* ClassifyAndCount._predict(X)
ClassifyAndCount_predict(X) == Return(relative_freq(estimators_, classes_, X))

\* ------------------------------------------------- BinaryAdjustedCount
\* _performance(..., cv=3)
PerfCv == 3

\* utils.validation.cross_validation_score(clf, X, y, cv,
\* score="confusion_matrix", labels=...): one confusion matrix per fold, the
\* folds being cv consecutive parts of the sample; entry (i, j) counts the
\* instances of label i that clf labels j.
cross_validation_score_cm(clf, X, y, cv, labels) ==
    [f \in 1..cv |->
        [i \in DOMAIN labels |-> [j \in DOMAIN labels |->
            Num(Cardinality({t \in Chunk([n \in DOMAIN y |-> n], cv, f) :
                                y[t] = labels[i] /\ lr_predict(clf, X[t]) = labels[j]}), 1)]]]

\* np.mean(matrices, 0)
MeanMatrix(ms) ==
    [i \in DOMAIN ms[1] |-> [j \in DOMAIN ms[1][i] |->
        FMean([f \in DOMAIN ms |-> ms[f][i][j]])]]

\* The labels of a confusion matrix when none are given: those of the true
\* and of the predicted labels, ascending.
SeenLabels(clf, X, y) == SetToSortedSeq(Range(y) \cup {lr_predict(clf, X[t]) : t \in DOMAIN X})

\* BinaryAdjustedCount._performance(X, y, clf, local)
Binary_performance(X, y, clf) ==
    LET cm == MeanMatrix(cross_validation_score_cm(clf, X, y, PerfCv, SeenLabels(clf, X, y)))
    IN  [tpr |-> FDiv(cm[1][1], FAdd(cm[1][1], cm[2][1])),
         fpr |-> FDiv(cm[1][2], FAdd(cm[1][2], cm[2][2]))]

\* BinaryAdjustedCount.fit(X, y).  The list branch checks every sample for
\* two classes and then names fit_and_performance_wrapper, which the module
\* neither defines nor imports.
BinaryAdjustedCount_fit(in) ==
    IF ~in.list
    THEN IF lr_status(in.y) # "ok" THEN Kept(lr_status(in.y))
         ELSE LET clf == lr_fit(in.X, in.y)
                  perf == Binary_performance(in.X, in.y, clf)
                  bank == Append(estimators_, clf)
              IN  [Kept("ok") EXCEPT !.tpr = perf.tpr, !.fpr = perf.fpr,
                                     !.estimators = bank, !.classes = BankClasses(bank)]
    ELSE IF \E i \in DOMAIN in.y : Cardinality(Range(in.y[i])) # 2
         THEN Kept("ValueError")
         ELSE Kept("NameError")

\* BinaryAdjustedCount._adjust(prob)
_adjust(prob) == [j \in DOMAIN prob |-> FDiv(FSub(prob[j], fpr_), FSub(tpr_, fpr_))]

\* BinaryAdjustedCount._predict(X)
BinaryAdjustedCount_predict(X) == Return(_adjust(relative_freq(estimators_, classes_, X)))

\* --------------------------------------------- MulticlassAdjustedCount
\* What a row of np.empty((n, n)) that is never assigned may hold.
Garbage == {Zero, Num(7, 1)}

\* MulticlassAdjustedCount._performance(X, y, clf, local): the rows of the
\* mean confusion matrix over self.classes_, each divided by its sum; a row
\* of zeros is skipped and keeps what np.empty left there.
Multiclass_performance(classes, X, y, clf, g) ==
    LET labels == SetToSortedSeq(classes)
        cm == MeanMatrix(cross_validation_score_cm(clf, X, y, PerfCv, labels))
    IN  [i \in DOMAIN labels |->
            IF \A j \in DOMAIN labels : FEq(cm[i][j], Zero)
            THEN [j \in DOMAIN labels |-> g]
            ELSE [j \in DOMAIN labels |-> FDiv(cm[i][j], FSum(cm[i]))]]

\* utils.validation.split(X, len(X)): one (train, perf) pair per sample,
\* perf the sample left out and train the others in order; it needs at
\* least two samples.
split(n) == [i \in 1..n |-> [train |-> SetToSortedSeq((1..n) \ {i}), perf |-> <<i>>]]

\* MulticlassAdjustedCount.fit(X, y).  conditional_prob_ is one matrix
\* (ndim 2) after a single sample and a list of matrices (ndim 3) after a
\* list of samples; merge pairs fold i with self.estimators_[i].
MulticlassAdjustedCount_fit(in, g) ==
    IF ~in.list
    THEN IF lr_status(in.y) # "ok" THEN Kept(lr_status(in.y))
         ELSE LET clf == lr_fit(in.X, in.y)
                  bank == Append(estimators_, clf)
              IN  [Kept("ok") EXCEPT
                      !.estimators = bank, !.classes = BankClasses(bank),
                      !.cond = [ndim |-> 2,
                                a |-> Multiclass_performance(BankClasses(bank), in.X, in.y, clf, g)]]
    ELSE IF Len(in.X) < 2 THEN Kept("ValueError")
    ELSE LET folds == split(Len(in.X))
             st == ParallelStatus([i \in DOMAIN folds |-> lr_status(in.y[folds[i].train[1]])])
         IN  IF st # "ok" THEN Kept(st)
             ELSE LET clfs == [i \in DOMAIN folds |->
                                  lr_fit(in.X[folds[i].train[1]], in.y[folds[i].train[1]])]
                      bank == estimators_ \o clfs
                  IN  [Kept("ok") EXCEPT
                          !.estimators = bank, !.classes = BankClasses(bank),
                          !.cond = [ndim |-> 3,
                                    a |-> [i \in DOMAIN folds |->
                                            Multiclass_performance(BankClasses(bank),
                                                in.X[folds[i].perf[1]], in.y[folds[i].perf[1]],
                                                bank[i], g)]]]

\* The determinant of a square matrix, by expansion along the first row.
RECURSIVE Det(_)
Det(A) ==
    IF Len(A) = 1 THEN A[1][1]
    ELSE FSum([c \in DOMAIN A |->
            FMul(IF c % 2 = 1 THEN A[1][c] ELSE FNeg(A[1][c]),
                 Det([r \in 1..(Len(A) - 1) |->
                        [k \in 1..(Len(A) - 1) |-> A[r + 1][IF k < c THEN k ELSE k + 1]]]))])

\* np.linalg.lstsq(A, rhs)[0]: the solution of A x = rhs when A is
\* invertible (Cramer's rule); otherwise the least-squares solution, left
\* uninterpreted.
lstsq(A, rhs) ==
    IF FEq(Det(A), Zero) THEN <<"lstsq", A, rhs>>
    ELSE [c \in DOMAIN A |->
            FDiv(Det([r \in DOMAIN A |-> [k \in DOMAIN A |->
                        IF k = c THEN rhs[r] ELSE A[r][k]]]), Det(A))]

\* The array `adjusted` solve_adjustments builds: coefs with the entries of
\* the nonzero coefs replaced by the solution of the transposed sub-matrix
\* system.
Adjusted(matrix, coefs) ==
    LET idxs == SetToSortedSeq({j \in DOMAIN coefs : ~FEq(coefs[j], Zero)})
        sub == [r \in DOMAIN idxs |-> [k \in DOMAIN idxs |-> matrix[idxs[k]][idxs[r]]]]
        adjustment == lstsq(sub, [r \in DOMAIN idxs |-> coefs[idxs[r]]])
    IN  [j \in DOMAIN coefs |->
            IF FEq(coefs[j], Zero) THEN coefs[j]
            ELSE adjustment[CHOOSE r \in DOMAIN idxs : idxs[r] = j]]

\* solve_adjustments(matrix, coefs): builds `adjusted`, returns coefs.
solve_adjustments(matrix, coefs) == coefs

\* np.mean(vectors, axis=0)
MeanVector(vs) == [j \in DOMAIN vs[1] |-> FMean([n \in DOMAIN vs |-> vs[n][j]])]

\* MulticlassAdjustedCount._predict(X): one task per element of
\* conditional_prob_; the elements of a single matrix are its rows, which
\* solve_adjustments cannot index by two axes.
MulticlassAdjustedCount_predict(X) ==
    LET coefs == relative_freq(estimators_, classes_, X)
    IN  IF conditional_prob_.ndim = 2 THEN Raise("AggregatedTaskError")
        ELSE Return(MeanVector([n \in DOMAIN conditional_prob_.a |->
                                  solve_adjustments(conditional_prob_.a[n], coefs)]))

\* ------------------------------------- ensemble quantifiers: the calls
\* Unlabelled samples given to predict.
EnsTestX == {<<0>>, <<0, 1>>, <<1, 2, 2>>}
EnsPredictSamples == {[list |-> FALSE, X |-> X] : X \in EnsTestX}
EnsPredictLists ==
    {[list |-> TRUE, X |-> Xs] : Xs \in UNION {[1..n -> EnsTestX] : n \in 1..MaxBank}}

\* self._predict(X) of the class of the object
Ens_predict(X) ==
    CASE class = "ClassifyAndCount" -> ClassifyAndCount_predict(X)
      [] class = "BinaryAdjustedCount" -> BinaryAdjustedCount_predict(X)
      [] OTHER -> MulticlassAdjustedCount_predict(X)

\* (a variant of predict that hands the results back last sample first)
Ens_predict_entry_reversed(in) ==
    IF ~in.list THEN Ens_predict(in.X)
    ELSE LET rs == [i \in DOMAIN in.X |-> Ens_predict(in.X[Len(in.X) + 1 - i])]
             st == ParallelStatus([i \in DOMAIN rs |-> rs[i].status])
         IN  IF st # "ok" THEN Raise(st) ELSE Return([i \in DOMAIN rs |-> rs[i].value])

\* BaseClassifyAndCountModel.predict(X): _predict for one sample; for a list
\* one task per sample, the results as a list.
Ens_predict_entry(in) ==
    IF ~in.list THEN Ens_predict(in.X)
    ELSE LET rs == [i \in DOMAIN in.X |-> Ens_predict(in.X[i])]
             st == ParallelStatus([i \in DOMAIN rs |-> rs[i].status])
         IN  IF st # "ok" THEN Raise(st) ELSE Return([i \in DOMAIN rs |-> rs[i].value])

\* fit of the class of the object
Ens_fit(in, g) ==
    CASE class = "ClassifyAndCount" -> ClassifyAndCount_fit(in)
      [] class = "BinaryAdjustedCount" -> BinaryAdjustedCount_fit(in)
      [] OTHER -> MulticlassAdjustedCount_fit(in, g)

EnsFit(in, g) ==
    /\ last.op = "none"
    /\ Len(estimators_) + (IF in.list THEN Len(in.X) ELSE 1) <= MaxBank
    /\ \E r \in {Ens_fit(in, g)} :
        /\ estimators_' = r.estimators
        /\ classes_' = r.classes
        /\ tpr_' = r.tpr
        /\ fpr_' = r.fpr
        /\ conditional_prob_' = r.cond
        /\ last' = [op |-> "fit", method |-> IF in.list THEN "list" ELSE "sample",
                    X |-> in.X, y |-> in.y, cv |-> 0,
                    status |-> r.status, value |-> <<>>, via |-> <<>>]
    /\ UNCHANGED <<config, tp_pa_, fp_pa_, train_dist_, train_prevs, V, th, qp, run>>

\* predict is followed on an object that holds at least one estimator.
EnsPredict(in) ==
    /\ last.op = "none"
    /\ estimators_ # <<>>
    /\ \E r \in {Ens_predict_entry(in)} :
          last' = [op |-> "predict", method |-> IF in.list THEN "list" ELSE "sample",
                   X |-> in.X, y |-> <<>>, cv |-> 0,
                   status |-> r.status, value |-> r.value, via |-> r.via]
    /\ UNCHANGED <<config, fitted, th, qp, run>>

EnsFitCall ==
    \/ \E in \in EnsFitSamples, g \in Garbage : EnsFit(in, g)
    \/ \E in \in EnsFitLists, g \in Garbage : EnsFit(in, g)
EnsPredictCall ==
    \/ \E in \in EnsPredictSamples : EnsPredict(in)
    \/ \E in \in EnsPredictLists : EnsPredict(in)

\* __init__: an empty estimator list, classes_ None (here the empty set);
\* tpr_ and fpr_ None on a BinaryAdjustedCount, conditional_prob_ None on a
\* MulticlassAdjustedCount.
NoClasses == {}

InitEns ==
    /\ class \in EnsClasses /\ b = 0 /\ estimator_class = NoneClf /\ NoGrid
    /\ estimators_ = <<>> /\ classes_ = NoClasses
    /\ tpr_ = (IF class = "BinaryAdjustedCount" THEN None ELSE Unset)
    /\ fpr_ = (IF class = "BinaryAdjustedCount" THEN None ELSE Unset)
    /\ conditional_prob_ = (IF class = "MulticlassAdjustedCount" THEN None ELSE Unset)
    /\ tp_pa_ = Unset /\ fp_pa_ = Unset
    /\ train_dist_ = Unset /\ train_prevs = Unset /\ V = Unset
    /\ last = NoCall
    /\ th = [t \in Threads |-> Idle]
    /\ qp = NoQuery
    /\ run = NoRun

NextEns == EnsFitCall \/ EnsPredictCall \/ Done
SpecEns == InitEns /\ [][NextEns]_vars

\* --------------------------------- metrics.distributed.cv_confusion_matrix
\* One job per fold is submitted to the cluster, the cluster is waited for,
\* and the jobs' results are collected.  A job is "pending" until its worker
\* ends it, with a result ("ok") or with an exception.  The confusion matrix
\* a job returns is named by its fold.  The rest of the state is left alone.
MaxFolds == 3
object == <<config, fitted, last, th, qp>>

\* cv_iter = split(X, folds); cms = []; the cluster is built; jobs = []
cv_confusion_matrix(folds) ==
    /\ run.pc = "idle"
    /\ run' = [NoRun EXCEPT !.pc = "submit", !.folds = folds]
    /\ UNCHANGED object

\* for train, test in cv_iter: job = cluster.submit(...); jobs.append(job)
submit ==
    /\ run.pc = "submit"
    /\ run' = [run EXCEPT !.jobs = Append(run.jobs, "pending"),
                          !.pc = IF Len(run.jobs) + 1 = run.folds THEN "wait" ELSE "submit"]
    /\ UNCHANGED object

\* A worker ends a job.
JobEnds(i, outcome) ==
    /\ run.pc \in {"submit", "wait"}
    /\ i \in DOMAIN run.jobs /\ run.jobs[i] = "pending"
    /\ run' = [run EXCEPT !.jobs[i] = outcome]
    /\ UNCHANGED object

\* cluster.wait() returns when every job has ended.
wait ==
    /\ run.pc = "wait"
    /\ \A i \in DOMAIN run.jobs : run.jobs[i] # "pending"
    /\ run' = [run EXCEPT !.pc = "collect"]
    /\ UNCHANGED object

\* for job in jobs: if job.exception: raise ClusterException(...);
\*                  cms.append(job.result)
collect ==
    /\ run.pc = "collect"
    /\ LET i == Len(run.cms) + 1
       IN  run' = IF i > Len(run.jobs) THEN [run EXCEPT !.pc = "finally"]
                  ELSE IF run.jobs[i] = "exception"
                       THEN [run EXCEPT !.pc = "finally", !.exc = "ClusterException"]
                       ELSE [run EXCEPT !.cms = Append(run.cms, [fold |-> i])]
    /\ UNCHANGED object

\* A KeyboardInterrupt inside the try block is caught: except
\* KeyboardInterrupt: cluster.close(), and the function goes on to finally.
\* One arriving in the finally block leaves the function.
KeyboardInterrupt ==
    /\ run.pc \in {"submit", "wait", "collect", "finally"}
    /\ run' = IF run.pc = "finally"
              THEN [run EXCEPT !.pc = "done", !.res = Raise("KeyboardInterrupt")]
              ELSE [run EXCEPT !.pc = "finally"]
    /\ UNCHANGED object

\* finally: cluster.print_status(); cluster.close(); then the pending
\* exception goes on, or: return np.array(cms)
finally ==
    /\ run.pc = "finally"
    /\ run' = [run EXCEPT !.pc = "done",
                          !.res = IF run.exc # "none" THEN Raise(run.exc) ELSE Return(run.cms)]
    /\ UNCHANGED object

\* The caller has taken the outcome.
Taken ==
    /\ run.pc = "done"
    /\ run' = NoRun
    /\ UNCHANGED object

InitDist == InitObject({"BaseCC"}) /\ b = 0 /\ estimator_class = NoneClf
NextDist ==
    \/ \E folds \in 1..MaxFolds : cv_confusion_matrix(folds)
    \/ submit
    \/ \E i \in 1..MaxFolds, outcome \in {"ok", "exception"} : JobEnds(i, outcome)
    \/ wait
    \/ collect
    \/ KeyboardInterrupt
    \/ finally
    \/ Taken
SpecDist == InitDist /\ [][NextDist]_vars

\* ------------------------------------- BasicModel._validate_estimator
\* The configurations of the constructor: a classifier or none, parameters
\* for it, a parameter grid or none, keyword arguments for the grid search.
\* __init__ replaces a None estimator_params, estimator_grid or grid_params
\* by dict(), so each is a (possibly empty) set of pairs.
MaxParam == 2
ParamSets == {{}} \cup {{<<"C", v>>} : v \in 1..MaxParam}
Grids == {{}} \cup {{<<"C", [i \in 1..n |-> i]>>} : n \in 1..MaxParam}
GridParams == {{}, {<<"refit", TRUE>>}}
\* default_grid={'C': [0.1, 1, 10]} (here 1, 2, 3), default_params=dict()
default_grid == {<<"C", <<1, 2, 3>>>>}

\* An estimator as it is built: the classifier with the parameters set on it,
\* alone or inside a grid search.
Plain(clf, params) == [wrapper |-> "none", estimator |-> clf, params |-> params,
                       param_grid |-> {}, kwargs |-> {}]
GridSearchCV(estimator, params, param_grid, kwargs) ==
    [wrapper |-> "GridSearchCV", estimator |-> estimator, params |-> params,
     param_grid |-> param_grid, kwargs |-> kwargs]

\* _validate_estimator(default, default_params, default_grid).  The branch
\* for estimator_params None is the else of a test that __init__ decides.
_validate_estimator(default, default_params) ==
    LET clf == IF estimator_class # NoneClf THEN estimator_class ELSE default
    IN  IF estimator_params \in ParamSets
        THEN IF estimator_grid = {}
             THEN Plain(clf, estimator_params)
             ELSE GridSearchCV(estimator_class,
                               IF estimator_class # NoneClf THEN estimator_params ELSE {},
                               estimator_grid, grid_params)
        ELSE IF estimator_grid = {}
             THEN Plain(clf, default_params)
             ELSE GridSearchCV(clf, default_params, default_grid, {<<"verbose", 11>>})

\* self._make_estimator() as fit calls it
MakeEstimator ==
    /\ last.op = "none"
    /\ last' = [NoCall EXCEPT !.op = "_make_estimator",
                              !.value = _validate_estimator(DefaultClf, {})]
    /\ UNCHANGED <<config, fitted, th, qp, run>>

InitMake ==
    /\ class = "BaseCC" /\ b = 0
    /\ estimator_class \in ClfConfigs \cup {NoneClf}
    /\ estimator_params \in ParamSets
    /\ estimator_grid \in Grids
    /\ grid_params \in GridParams
    /\ classes_ = Unset /\ estimators_ = Unset
    /\ tpr_ = Unset /\ fpr_ = Unset /\ tp_pa_ = Unset /\ fp_pa_ = Unset
    /\ train_dist_ = Unset /\ train_prevs = Unset /\ V = Unset
    /\ conditional_prob_ = Unset
    /\ last = NoCall
    /\ th = [t \in Threads |-> Idle]
    /\ qp = NoQuery
    /\ run = NoRun
NextMake == MakeEstimator \/ Done
SpecMake == InitMake /\ [][NextMake]_vars

\* ================================================================ claims
CountMethods == {"cc", "ac", "pcc", "pac"}
Fitted == classes_ # Unset
Returned(methods) == last.op = "predict" /\ last.method \in methods /\ last.status = "ok"
IsHard == _make_estimator(estimator_class).proba = FALSE

\* A prevalence vector: every entry a number in [0, 1], the entries summing to 1.
Feasible(v) ==
    /\ \A j \in DOMAIN v : IsNum(v[j]) /\ FLe(Zero, v[j]) /\ FLe(v[j], One)
    /\ FSum(v) = One
AllZero(v) == \A j \in DOMAIN v : v[j] = Zero
HasNaN(v) == \E j \in DOMAIN v : v[j].k = "nan"

\* C1: on a fitted BaseCC, predict with cc, ac, pcc or pac returns a vector
\* whose entries lie in [0, 1] and sum to 1, or the all-zero vector when the
\* sum before renormalisation is zero.
C1_PredictFeasible ==
    (Fitted /\ Returned(CountMethods)) => (Feasible(last.value) \/ AllZero(last.value))

\* C2: on a quantifier fitted on two classes, cc, ac, pcc and pac return
\* [1 - p, p] for the scalar p of the positive (second) class, so the vector
\* has one entry per class.
C2_BinaryExpansion ==
    (Returned(CountMethods) /\ Len(classes_) = 2) =>
        LET p == StrategyIter(last.method, classes_[2], last.X).p
        IN  /\ Len(last.value) = Len(classes_)
            /\ last.value[1] = FSub(One, p)
            /\ last.value[2] = p

C2_Witness ==
    /\ Returned(CountMethods) /\ Len(classes_) = 2
    /\ FLt(Zero, last.value[1]) /\ FLt(Zero, last.value[2])

\* C3: predict with an unsupported method name raises ValueError, on a
\* fitted and on a never fitted quantifier alike, and returns nothing.
C3_InvalidMethodRaises ==
    (last.op = "predict" /\ last.method \notin Methods) =>
        (last.status = "ValueError" /\ last.value = <<>> /\ last.via = <<>>)

C3_Witness == last.op = "predict" /\ last.method \notin Methods /\ ~Fitted

\* C4: without a bin count no training distribution table is ever built and
\* every predict with 'hdy' raises ValueError, whatever was called before;
\* with a bin count, a fit that returns has built the table, one row per class.
C4_HdyNeedsBins ==
    /\ b = 0 => train_dist_ = Unset
    /\ (b = 0 /\ last.op = "predict" /\ last.method = "hdy") => last.status = "ValueError"
    /\ (b > 0 /\ last.op = "fit" /\ last.status = "ok") =>
            (train_dist_ # Unset /\ Len(train_dist_) = Len(classes_))

C4_Witness ==
    b = 0 /\ Fitted /\ last.op = "predict" /\ last.method = "hdy" /\ last.status = "ValueError"

\* C5: with a classifier that has no probability output, fit
\* completes with TPR and FPR set and tp_pa_, fp_pa_ unset, cc and ac
\* succeed, pcc and pac raise the unsupported-estimator error (ValueError).
Calibrated ==
    \A c \in DOMAIN estimators_ :
        /\ IsNum(tpr_[c]) /\ IsNum(fpr_[c])
        /\ tp_pa_[c] = None /\ fp_pa_[c] = None
HardPredicts ==
    /\ (last.op = "predict" /\ last.method \in {"cc", "ac"}) => last.status = "ok"
    /\ (last.op = "predict" /\ last.method \in {"pcc", "pac"}) =>
            (last.status = "ValueError" /\ last.value = <<>>)

C5_HardClassifier ==
    (IsHard /\ Fitted) =>
        /\ last.op = "fit" => last.status = "ok"
        /\ Calibrated
        /\ HardPredicts

\* C6: when fit ends, classes_ lists the observed labels in ascending order
\* and the estimator bank holds one trained estimator per label when there
\* are three or more, and one, keyed by the second label, when there are
\* two; each was trained on y binarised against its own class.
C6_EstimatorBank ==
    last.op = "fit" =>
        /\ Range(classes_) = Range(last.y) /\ Ascending(classes_)
        /\ Len(classes_) = Cardinality(Range(last.y))
        /\ DOMAIN estimators_ =
              (IF Len(classes_) = 2 THEN {classes_[2]} ELSE Range(classes_))
        /\ \A c \in DOMAIN estimators_ :
              /\ estimators_[c].kind \in ClfKinds
              /\ estimators_[c].y_bin =
                    [i \in DOMAIN last.y |-> IF last.y[i] = c THEN 1 ELSE 0]

C6_Witness ==
    /\ last.op = "fit" /\ last.status = "ok" /\ Len(classes_) = 2
    /\ classes_[1] < classes_[2] /\ DOMAIN estimators_ = {classes_[2]}

\* C8: in ac and pac, a class whose adjustment denominator is zero raises no
\* error and puts no NaN in the returned vector.
ZeroDenominator(method) ==
    \E c \in DOMAIN estimators_ :
        \/ method = "ac" /\ FEq(tpr_[c], fpr_[c])
        \/ method = "pac" /\ IsNum(tp_pa_[c]) /\ FEq(tp_pa_[c], fp_pa_[c])

C8_NoNaNOnZeroDenominator ==
    (Fitted /\ last.op = "predict" /\ last.method \in {"ac", "pac"}
        /\ ZeroDenominator(last.method)) =>
            (last.status = "ok" /\ ~HasNaN(last.value))

\* C9: after a fit with a bin count, the bins of every (true class,
\* classifier) slice of the training distribution table sum to 1.
SliceSum(n_cls, n_clf, n_clfs) ==
    FSum([j \in 1..b |-> train_dist_[n_cls][(j - 1) * n_clfs + n_clf]])

C9_SlicesSumToOne ==
    (last.op = "fit" /\ last.status = "ok" /\ b > 0) =>
        IF Len(classes_) = 2
        THEN \A n_cls \in 1..2 : SliceSum(n_cls, 1, 1) = One
        ELSE \A n_cls \in 1..Len(classes_), n_clf \in 1..Len(classes_) :
                SliceSum(n_cls, n_clf, Len(classes_)) = One

\* What the call of thread t returns when nothing else runs.
Alone(t) ==
    IF class = "FriedmanAC" THEN FriedmanPredict(th[t].X)
    ELSE predict(th[t].X, th[t].method)

ResultsAsAlone == \A t \in Threads : th[t].pc = "done" => th[t].res = Alone(t)
FrameKept == FitCompleted => UNCHANGED fitted

\* C7: once fit has completed, no step of any interleaving of predict calls
\* changes the estimator bank, the TPR/FPR maps, the calibration maps, the
\* distribution table, V or the training prevalences, and every call ends
\* with the result it has when run alone.
C7_PredictReadsOnly == []ResultsAsAlone /\ [][FrameKept]_vars

\* Both threads are inside a call, one of them past a loop pass of `ac`,
\* the other ended with its result.
C7_Witness ==
    /\ FitCompleted
    /\ \E t, u \in Threads :
          /\ t # u
          /\ th[t].pc = "done" /\ th[t].res.status = "ok"
          /\ th[u].pc \in {"loop", "tail"} /\ th[u].method = "ac" /\ Len(th[u].acc) > 0

\* sum(x) = 1 and every x_i >= 0
OnSimplex(x) == FSum(x) = One /\ \A i \in DOMAIN x : FLe(Zero, x[i])

\* C10: the constraints passed to the solver admit exactly the vectors with
\* non-negative entries that sum to 1.
C10_ConstraintsAreSimplex ==
    qp.phase = "checked" => (qp.admitted <=> OnSimplex(qp.x))

\* C11: fit calibrates with k = min(requested cv, smallest class count);
\* the binarised labels of every class have at least k positives and k
\* negatives, every stratified fold tests at least one positive and one
\* negative, so the stored TPR and FPR are numbers; with k = 1 the rates
\* are the ones computed on the whole sample.
C11_FoldsHoldBothClasses ==
    (last.op = "fit" /\ class = "BaseCC") =>
        LET k == Min(last.cv, MinClassCount(last.y))
        IN  \A c \in DOMAIN estimators_ :
                LET y_bin == [i \in DOMAIN last.y |-> IF last.y[i] = c THEN 1 ELSE 0]
                IN  /\ Count(y_bin, 1) >= k /\ Count(y_bin, 0) >= k
                    /\ \A f \in 1..k :
                          /\ \E i \in TestFold(y_bin, k, f) : y_bin[i] = 1
                          /\ \E i \in TestFold(y_bin, k, f) : y_bin[i] = 0
                    /\ IsNum(tpr_[c]) /\ IsNum(fpr_[c])
                    /\ tpr_[c] = (IF k = 1 THEN tpr(estimators_[c], last.X, y_bin)
                                  ELSE FMean(cross_val_score(estimators_[c], last.X, y_bin, k, "tpr")))
                    /\ fpr_[c] = (IF k = 1 THEN fpr(estimators_[c], last.X, y_bin)
                                  ELSE FMean(cross_val_score(estimators_[c], last.X, y_bin, k, "fpr")))

C11_Witness ==
    /\ last.op = "fit" /\ last.status = "ok" /\ last.cv > 2
    /\ MinClassCount(last.y) = 2 /\ Len(classes_) = 2

\* The labels given to the fit that has just ended are not those of a
\* two-class problem (in one sample of a list, or in the single sample).
NonBinaryInput(call) ==
    IF call.method = "list"
    THEN \E i \in DOMAIN call.y : Cardinality(Range(call.y[i])) # 2
    ELSE Cardinality(Range(call.y)) # 2

\* C12: BinaryAdjustedCount.fit raises whenever the labels of the sample, or
\* of one sample of the list, are not of exactly two classes, and then no
\* estimator has been added and tpr_, fpr_ are as before.
C12_NonBinaryFitRaises ==
    [][(class = "BinaryAdjustedCount" /\ last.op = "none" /\ last'.op = "fit"
            /\ NonBinaryInput(last'))
        => (last'.status # "ok" /\ estimators_' = estimators_
                /\ tpr_' = tpr_ /\ fpr_' = fpr_)]_vars

\* A vector of relative frequencies of the known classes: one entry per class,
\* each the share of the instances of X given that label by the majority of
\* the estimators, the entries summing to 1.
IsRelativeFreq(v, X) ==
    /\ Len(v) = Cardinality(classes_)
    /\ \A j \in DOMAIN v :
          v[j] = Num(Cardinality({i \in DOMAIN X : Majority(estimators_, X[i]) = j - 1}), Len(X))
    /\ FSum(v) = One

C14_AllFoldsOrError ==
    (run.pc = "done" /\ run.res.status = "ok")
        => run.res.value = [i \in DOMAIN run.jobs |-> [fold |-> i]]

\* C15: the estimator fit trains is built from the resolved classifier, the
\* supplied one or else the default: alone when no grid is given, inside a
\* grid search over the configured grid when one is given; the grid search
\* never holds a missing classifier.
C15_EstimatorFromResolvedClassifier ==
    last.op = "_make_estimator"
        => LET resolved == IF estimator_class # NoneClf THEN estimator_class ELSE DefaultClf
               built == last.value
           IN  /\ built.estimator = resolved
               /\ built.estimator # NoneClf
               /\ estimator_grid = {} => built.wrapper = "none"
               /\ estimator_grid # {} =>
                     built.wrapper = "GridSearchCV" /\ built.param_grid = estimator_grid

\* The mean, over the training instances of class cls, of entry r of their
\* indicator vectors, as the fit that has just ended saw them.
ClassMean(cls, r) ==
    LET Vp == IndicatorRows(classes_, ScoreCols(classes_, estimators_, last.X),
                            train_prevs, last.X)
    IN  ColumnMean(Take(Vp, Where(last.y, cls)), r)
FriedmanFitted == class = "FriedmanAC" /\ last.op = "fit" /\ last.status = "ok"

\* C16: after FriedmanAC.fit, row i of V is the mean indicator vector of the
\* training instances of class i.
C16_RowsHoldClassMeans ==
    FriedmanFitted
        => \A i \in DOMAIN classes_ : \A r \in DOMAIN classes_ :
              V[i][r] = ClassMean(classes_[i], r)

\* C16 as amended: after FriedmanAC.fit, the column of V at the index of
\* class label c is the mean indicator vector of the training instances of
\* class c.
C16_ColumnsHoldClassMeans ==
    FriedmanFitted
        => \A i \in DOMAIN classes_ : \A r \in DOMAIN classes_ :
              V[r][classes_[i] + 1] = ClassMean(classes_[i], r)

C16_Witness ==
    FriedmanFitted /\ \E i \in DOMAIN V : \E r \in DOMAIN V : V[i][r] # V[r][i]

\* C17: predict of a fitted BinaryAdjustedCount whose TPR differs from its
\* FPR returns, for one sample, a vector with every entry >= 0 and the
\* entries summing to 1.
C17_AdjustedIsPrevalence ==
    (class = "BinaryAdjustedCount" /\ last.op = "predict" /\ last.method = "sample"
            /\ IsNum(tpr_) /\ IsNum(fpr_) /\ tpr_ # fpr_)
        => /\ last.status = "ok"
           /\ \A j \in DOMAIN last.value : IsNum(last.value[j]) /\ FLe(Zero, last.value[j])
           /\ FSum(last.value) = One

\* The sub-matrix system of the classes with nonzero frequency has one
\* solution.
Solvable(matrix, coefs) ==
    LET idxs == SetToSortedSeq({j \in DOMAIN coefs : ~FEq(coefs[j], Zero)})
    IN  ~FEq(Det([r \in DOMAIN idxs |-> [k \in DOMAIN idxs |-> matrix[idxs[k]][idxs[r]]]]),
             Zero)

\* C18: MulticlassAdjustedCount._predict returns the mean, over the
\* conditional-probability matrices, of the adjusted frequency vectors (the
\* solution of the transposed sub-matrix system at the classes of nonzero
\* frequency, 0 elsewhere), not the unadjusted frequencies.
C18_ReturnsAdjusted ==
    (class = "MulticlassAdjustedCount" /\ last.op = "predict" /\ last.method = "sample"
            /\ conditional_prob_.ndim = 3)
        => LET coefs == relative_freq(estimators_, classes_, last.X)
               ms == conditional_prob_.a
           IN  (\A n \in DOMAIN ms : Solvable(ms[n], coefs))
                  => /\ last.status = "ok"
                     /\ last.value = MeanVector([n \in DOMAIN ms |-> Adjusted(ms[n], coefs)])

\* The samples of a fit call, as a list of label vectors.
SamplesOf(call) == IF call.method = "list" THEN call.y ELSE <<call.y>>

\* C19: after a fit call on an ensemble quantifier the estimator list holds
\* the estimators of that call alone, one per sample, and classes_ is the
\* label set of that call alone, whatever was fitted before.
C19_FitReplaces ==
    [][(class \in EnsClasses /\ last.op = "none" /\ last'.op = "fit" /\ last'.status = "ok")
          => /\ Len(estimators_') = Len(SamplesOf(last'))
             /\ classes_' = UNION {Range(SamplesOf(last')[i]) : i \in DOMAIN SamplesOf(last')}]_vars

LookupFailures == {"KeyError", "IndexError"}

\* C20: with any two labels a < b and bins set, fit and the HDy predict use
\* the one estimator stored for the positive class b and split the training
\* instances by y = a and y = b: neither ends in a lookup failure, and a
\* completed fit leaves the two histogram rows of the classes a and b.
C20_BinaryLabelsAnyPair ==
    (class = "BaseCC" /\ b # 0 /\ classes_ # Unset /\ Len(classes_) = 2)
        => /\ DOMAIN estimators_ = {classes_[2]}
           /\ last.op = "fit" =>
                /\ last.status \notin LookupFailures
                /\ last.status = "ok" => Len(train_dist_) = 2
           /\ (last.op = "predict" /\ last.method = "hdy") =>
                last.status \notin LookupFailures

============================================================================
